---- MODULE Spec2Model ----
(***************************************************************************)
(* deber: the container lifecycle driver (pkg/docker) and the pipeline     *)
(* steps that use it (pkg/walking), as a state machine.                    *)
(*                                                                         *)
(* The Docker daemon is the environment: `daemon` maps every container     *)
(* name to its state and its networks.  Every cli.* call of the source is  *)
(* an operator that takes the daemon and an outcome chosen by the          *)
(* environment (the call reaches the daemon, or it fails) and gives back   *)
(* the reply and the daemon after the call.                                *)
(***************************************************************************)
EXTENDS Naturals, Sequences, FiniteSets, TLC

VARIABLES
    daemon,     \* container name -> [State, Networks] as the daemon holds it
    op,         \* the operation the process runs or ran last
    ret,        \* what that operation returned
    log,        \* the underlying calls that operation issued, in order
    prev,       \* summary of the operation before it
    probe,      \* the answers of the last State Prober round
    entry,      \* the daemon and the terminal as the operation found them
    term,       \* the host terminal behind os.Stdin: [IsTerminal, Mode, Size]
    pc,         \* where the calling goroutine stands in ContainerExec
    args,       \* the ContainerExecArgs of the call
    exec,       \* the exec session as the daemon holds it
    hijack,     \* the hijacked stream: "none", "open" or "closed"
    oldState,   \* the terminal mode a deferred RestoreTerminal holds
    watcher,    \* the resizeIfChanged goroutine
    wlog,       \* the calls the resizeIfChanged goroutine issued
    stdinCopy,   \* the goroutine copying os.Stdin into the stream
    run         \* the pipeline run: where it stands, the outcomes so far, the process, the files

(***************************************************************************)
(* Constants of pkg/docker/container.go                                    *)
(***************************************************************************)
ContainerStateRunning == "running"
ContainerStateCreated == "created"
ContainerStateExited == "exited"
ContainerStateRestarting == "restarting"
ContainerStatePaused == "paused"
ContainerStateDead == "dead"

ContainerStates ==
    { ContainerStateRunning, ContainerStateCreated, ContainerStateExited,
      ContainerStateRestarting, ContainerStatePaused, ContainerStateDead }

\* A name the daemon does not list.
Absent == "absent"

\* name.Container of this process, and the container of another build.
Container == "deber-a"
Other == "deber-b"
Names == { Container, Other }
NameOrder == << Other, Container >>

\* The network ContainerNetwork toggles, and one it must not mistake for it.
Bridge == "bridge"
NetworkNames == { Bridge, "host" }

Nil == "nil"
ErrDaemon == "daemon unavailable"
ErrNoSuchContainer == "no such container"

(***************************************************************************)
(* The daemon                                                              *)
(***************************************************************************)
ContainerRecords ==
    [ State : ContainerStates, Networks : SUBSET NetworkNames ]
        \cup { [ State |-> Absent, Networks |-> {} ] }

\* "/"+name, the form in which the daemon lists a name.
Slash(name) == "/" \o name

\* cli.ContainerList(ctx, {All: true}): every container the daemon knows.
CliContainerList(d, up) ==
    IF up
    THEN [ err |-> Nil,
           list |-> LET present == SelectSeq(NameOrder, LAMBDA n : d[n].State # Absent)
                    IN  [ i \in DOMAIN present |->
                            [ Names |-> << Slash(present[i]) >>,
                              State |-> d[present[i]].State ] ] ]
    ELSE [ err |-> ErrDaemon, list |-> << >> ]

\* cli.ContainerInspect(ctx, name)
CliContainerInspect(d, name, up) ==
    IF ~up THEN [ err |-> ErrDaemon, Networks |-> {} ]
    ELSE IF d[name].State = Absent THEN [ err |-> ErrNoSuchContainer, Networks |-> {} ]
    ELSE [ err |-> Nil, Networks |-> d[name].Networks ]

\* cli.ContainerStop(ctx, name, &timeout): on success the container has exited.
CliContainerStop(d, name, up) ==
    IF ~up THEN [ err |-> ErrDaemon, daemon |-> d ]
    ELSE IF d[name].State = Absent THEN [ err |-> ErrNoSuchContainer, daemon |-> d ]
    ELSE [ err |-> Nil,
           daemon |-> IF d[name].State \in { ContainerStateRunning, ContainerStatePaused,
                                             ContainerStateRestarting }
                      THEN [ d EXCEPT ![name].State = ContainerStateExited ]
                      ELSE d ]

\* cli.NetworkConnect(ctx, network, name, nil)
CliNetworkConnect(d, network, name, up) ==
    IF ~up THEN [ err |-> ErrDaemon, daemon |-> d ]
    ELSE IF d[name].State = Absent THEN [ err |-> ErrNoSuchContainer, daemon |-> d ]
    ELSE [ err |-> Nil,
           daemon |-> [ d EXCEPT ![name].Networks = @ \cup { network } ] ]

\* cli.NetworkDisconnect(ctx, network, name, false)
CliNetworkDisconnect(d, network, name, up) ==
    IF ~up THEN [ err |-> ErrDaemon, daemon |-> d ]
    ELSE IF d[name].State = Absent THEN [ err |-> ErrNoSuchContainer, daemon |-> d ]
    ELSE [ err |-> Nil,
           daemon |-> [ d EXCEPT ![name].Networks = @ \ { network } ] ]

\* One entry of the call log.
Call(name, arg, err) == << name, arg, err >>
CallNames(l) == [ i \in DOMAIN l |-> l[i][1] ]
CallsOk(l) == \A i \in DOMAIN l : l[i][3] = Nil
CountCalls(l, names) == Cardinality({ i \in DOMAIN l : l[i][1] \in names })

(***************************************************************************)
(* State Prober (container.go:72-129).  `resp` is the listing reply.       *)
(***************************************************************************)
IsContainerCreated(resp, name) ==
    IF resp.err # Nil THEN [ val |-> FALSE, err |-> resp.err ]
    ELSE [ val |-> \E i \in DOMAIN resp.list :
                     \E j \in DOMAIN resp.list[i].Names :
                       resp.list[i].Names[j] = Slash(name),
           err |-> Nil ]

IsContainerStarted(resp, name) ==
    IF resp.err # Nil THEN [ val |-> FALSE, err |-> resp.err ]
    ELSE [ val |-> \E i \in DOMAIN resp.list :
                     \E j \in DOMAIN resp.list[i].Names :
                       /\ resp.list[i].Names[j] = Slash(name)
                       /\ resp.list[i].State = ContainerStateRunning,
           err |-> Nil ]

\* A prober that matches on the state alone and forgets the name.
IsContainerStoppedAnyName(resp, name) ==
    IF resp.err # Nil THEN [ val |-> FALSE, err |-> resp.err ]
    ELSE [ val |-> ~ \E i \in DOMAIN resp.list :
                       resp.list[i].State = ContainerStateRunning,
           err |-> Nil ]

IsContainerStopped(resp, name) ==
    IF resp.err # Nil THEN [ val |-> FALSE, err |-> resp.err ]
    ELSE [ val |-> ~ \E i \in DOMAIN resp.list :
                       \E j \in DOMAIN resp.list[i].Names :
                         /\ resp.list[i].Names[j] = Slash(name)
                         /\ resp.list[i].State = ContainerStateRunning,
           err |-> Nil ]

(***************************************************************************)
(* Network Toggle (container.go:314-338)                                   *)
(***************************************************************************)
\* A toggle that connects or disconnects without looking at the attachment.
ContainerNetworkBlind(d, name, wantConnected, inspectUp, netUp) ==
    LET inspect == CliContainerInspect(d, name, inspectUp)
        r == IF wantConnected THEN CliNetworkConnect(d, Bridge, name, netUp)
             ELSE CliNetworkDisconnect(d, Bridge, name, netUp)
    IN  IF inspect.err # Nil
        THEN [ err |-> inspect.err, daemon |-> d,
               calls |-> << Call("ContainerInspect", name, inspect.err) >> ]
        ELSE [ err |-> r.err, daemon |-> r.daemon,
               calls |-> << Call("ContainerInspect", name, inspect.err),
                            Call(IF wantConnected THEN "NetworkConnect"
                                 ELSE "NetworkDisconnect", name, r.err) >> ]

ContainerNetwork(d, name, wantConnected, inspectUp, netUp) ==
    LET network == Bridge
        inspect == CliContainerInspect(d, name, inspectUp)
        gotConnected == \E net \in inspect.Networks : net = network
    IN  IF inspect.err # Nil
        THEN [ err |-> inspect.err, daemon |-> d,
               calls |-> << Call("ContainerInspect", name, inspect.err) >> ]
        ELSE IF wantConnected /\ ~gotConnected
        THEN LET r == CliNetworkConnect(d, network, name, netUp)
             IN  [ err |-> r.err, daemon |-> r.daemon,
                   calls |-> << Call("ContainerInspect", name, inspect.err),
                                Call("NetworkConnect", name, r.err) >> ]
        ELSE IF ~wantConnected /\ gotConnected
        THEN LET r == CliNetworkDisconnect(d, network, name, netUp)
             IN  [ err |-> r.err, daemon |-> r.daemon,
                   calls |-> << Call("ContainerInspect", name, inspect.err),
                                Call("NetworkDisconnect", name, r.err) >> ]
        ELSE [ err |-> Nil, daemon |-> d,
               calls |-> << Call("ContainerInspect", name, inspect.err) >> ]

(***************************************************************************)
(* The stop step (walking/stop.go:22-39)                                   *)
(***************************************************************************)
\* A stop step without its idempotency check.
StopUnguarded(d, name, listUp, stopUp) ==
    LET r == CliContainerStop(d, name, stopUp)
    IN  [ out |-> IF r.err # Nil THEN "Failed" ELSE "Done", daemon |-> r.daemon,
          calls |-> << Call("ContainerStop", name, r.err) >> ]

\* A stop step that takes the answer of the probe without looking at its error.
StopIgnoringProbeError(d, name, listUp, stopUp) ==
    LET isContainerStopped == IsContainerStopped(CliContainerList(d, listUp), name)
    IN  IF isContainerStopped.val
        THEN [ out |-> "Skipped", daemon |-> d,
               calls |-> << Call("ContainerList", "", isContainerStopped.err) >> ]
        ELSE LET r == CliContainerStop(d, name, stopUp)
             IN  [ out |-> IF r.err # Nil THEN "Failed" ELSE "Done",
                   daemon |-> r.daemon,
                   calls |-> << Call("ContainerList", "", isContainerStopped.err),
                                Call("ContainerStop", name, r.err) >> ]

Stop(d, name, listUp, stopUp) ==
    LET isContainerStopped == IsContainerStopped(CliContainerList(d, listUp), name)
    IN  IF isContainerStopped.err # Nil
        THEN [ out |-> "Failed", daemon |-> d,
               calls |-> << Call("ContainerList", "", isContainerStopped.err) >> ]
        ELSE IF isContainerStopped.val
        THEN [ out |-> "Skipped", daemon |-> d,
               calls |-> << Call("ContainerList", "", Nil) >> ]
        ELSE LET r == CliContainerStop(d, name, stopUp)
             IN  [ out |-> IF r.err # Nil THEN "Failed" ELSE "Done",
                   daemon |-> r.daemon,
                   calls |-> << Call("ContainerList", "", Nil),
                                Call("ContainerStop", name, r.err) >> ]

(***************************************************************************)
(* The host terminal and the exec session (container.go:58-68, 204-310)    *)
(***************************************************************************)
\* SIGWINCH notifications the model lets the host raise in one run.
MaxSignals == 2

Sizes == { [ Width |-> 80, Height |-> 24 ], [ Width |-> 100, Height |-> 30 ] }
NoSize == [ Width |-> 0, Height |-> 0 ]
TermModes == { "cooked", "cbreak" }
RawMode == "raw"
NoState == "none"
DefaultTerm == [ IsTerminal |-> TRUE, Mode |-> "cooked", Size |-> NoSize ]
ExitCodes == { 0, 1, 7 }

ErrNotRunning == "container is not running"
ErrExecNotRunning == "exec is not running"
ErrTerminal == "terminal ioctl failed"
ErrNonZero == "command exited with non-zero status"

\* The ContainerExecArgs the callers pass; commands run as root, the bare
\* shell as the container's user.
ExecArgs ==
    { a \in [ Interactive : BOOLEAN, Name : { Container }, Cmd : { "", "apt-get update" },
              WorkDir : { "/build/source" }, AsRoot : BOOLEAN, Skip : BOOLEAN,
              Network : BOOLEAN ] : a.AsRoot = (a.Cmd # "") }
NoArgs ==
    [ Interactive |-> FALSE, Name |-> Container, Cmd |-> "", WorkDir |-> "",
      AsRoot |-> FALSE, Skip |-> FALSE, Network |-> FALSE ]

\* config, as ContainerExec has built it when it calls ContainerExecCreate.
ExecConfig(a) ==
    [ Cmd |-> IF a.Cmd # "" THEN << "bash", "-c", a.Cmd >> ELSE << "bash" >>,
      WorkingDir |-> a.WorkDir,
      AttachStdin |-> a.Interactive,
      AttachStdout |-> TRUE,
      AttachStderr |-> TRUE,
      Tty |-> TRUE,
      User |-> IF a.AsRoot THEN "root" ELSE "" ]
NoConfig ==
    [ Cmd |-> << >>, WorkingDir |-> "", AttachStdin |-> FALSE, AttachStdout |-> FALSE,
      AttachStderr |-> FALSE, Tty |-> FALSE, User |-> "" ]

NoExec ==
    [ ID |-> "", Config |-> NoConfig, Running |-> FALSE, ExitCode |-> 0, Size |-> NoSize ]

\* cli.ContainerExecCreate(ctx, name, config)
CliContainerExecCreate(d, name, config, up) ==
    IF ~up THEN [ err |-> ErrDaemon, exec |-> NoExec ]
    ELSE IF d[name].State = Absent THEN [ err |-> ErrNoSuchContainer, exec |-> NoExec ]
    ELSE IF d[name].State # ContainerStateRunning
    THEN [ err |-> ErrNotRunning, exec |-> NoExec ]
    ELSE [ err |-> Nil,
           exec |-> [ ID |-> "exec-1", Config |-> config, Running |-> FALSE,
                      ExitCode |-> 0, Size |-> NoSize ] ]

\* cli.ContainerExecAttach(ctx, id, check): starts the command and hijacks
\* the connection.
CliContainerExecAttach(x, up) ==
    IF ~up THEN [ err |-> ErrDaemon, exec |-> x ]
    ELSE [ err |-> Nil, exec |-> [ x EXCEPT !.Running = TRUE ] ]

\* cli.ContainerExecResize(ctx, id, options)
CliContainerExecResize(x, size, up) ==
    IF ~up THEN [ err |-> ErrDaemon, exec |-> x ]
    ELSE IF ~x.Running THEN [ err |-> ErrExecNotRunning, exec |-> x ]
    ELSE [ err |-> Nil, exec |-> [ x EXCEPT !.Size = size ] ]

\* cli.ContainerExecInspect(ctx, id)
CliContainerExecInspect(x, up) ==
    IF ~up THEN [ err |-> ErrDaemon, ExitCode |-> 0 ]
    ELSE [ err |-> Nil, ExitCode |-> x.ExitCode ]

\* term.GetWinsize(fd)
GetWinsize(t, ok) ==
    IF ok THEN [ err |-> Nil, winSize |-> t.Size ]
    ELSE [ err |-> ErrTerminal, winSize |-> NoSize ]

\* ContainerExecResize (container.go:293-310)
ContainerExecResize(x, t, sizeOk, up) ==
    LET w == GetWinsize(t, sizeOk)
        options == [ Height |-> w.winSize.Height, Width |-> w.winSize.Width ]
        r == CliContainerExecResize(x, options, up)
    IN  IF w.err # Nil
        THEN [ err |-> w.err, exec |-> x,
               calls |-> << Call("GetWinsize", w.winSize, w.err) >> ]
        ELSE [ err |-> r.err, exec |-> r.exec,
               calls |-> << Call("GetWinsize", w.winSize, Nil),
                            Call("ContainerExecResize", options, r.err) >> ]

NoWatcher ==
    [ pc |-> "none", raised |-> 0, received |-> 0, unserved |-> FALSE, winSize |-> NoSize ]

\* No pipeline runs.
NoRun ==
    [ at |-> "none", done |-> << >>, disabled |-> FALSE,
      proc |-> "running", exitCode |-> 0,
      fs |-> [ ArchivePackageDir |-> FALSE, Packages |-> FALSE ] ]

\* No ContainerExec has been called.
NoSession ==
    /\ pc = "idle"
    /\ args = NoArgs
    /\ exec = NoExec
    /\ hijack = "none"
    /\ oldState = NoState
    /\ watcher = NoWatcher
    /\ wlog = << >>
    /\ stdinCopy = "none"

(***************************************************************************)
(* The process, as far as the state prober, the network toggle and the     *)
(* stop step go: each is one sequential call, run to its return.           *)
(***************************************************************************)
NoOp == [ kind |-> "none", want |-> FALSE ]
NoProbe ==
    [ name |-> "",
      created |-> [ val |-> FALSE, err |-> Nil ],
      started |-> [ val |-> FALSE, err |-> Nil ],
      stopped |-> [ val |-> FALSE, err |-> Nil ] ]

\* What the next operation remembers of this one.
Summary ==
    [ kind |-> op.kind, want |-> op.want, ret |-> ret,
      n |-> CountCalls(log, { "ContainerStop", "NetworkConnect", "NetworkDisconnect" }) ]

StateVars == << daemon, op, ret, log, prev, probe >>
ExecVars == << term, pc, args, exec, hijack, oldState, watcher, wlog, stdinCopy >>
vars == << daemon, op, ret, log, prev, probe,
           entry, term, pc, args, exec, hijack, oldState, watcher, wlog, stdinCopy, run >>

InitState ==
    /\ daemon \in { d \in [ Names -> ContainerRecords ] :
                       d[Other].State # Absent => d[Other].Networks = { Bridge } }
    /\ op = NoOp
    /\ ret = Nil
    /\ log = << >>
    /\ prev = [ kind |-> "none", want |-> FALSE, ret |-> Nil, n |-> 0 ]
    /\ probe = NoProbe
    /\ entry = [ daemon |-> daemon, term |-> DefaultTerm ]
    /\ term = DefaultTerm
    /\ NoSession
    /\ run = NoRun

\* One round of the three probes on one name, each with its own listing call.
ProbeStep ==
    \E name \in Names, up1 \in BOOLEAN, up2 \in BOOLEAN, up3 \in BOOLEAN :
        /\ probe' = [ name |-> name,
                      created |-> IsContainerCreated(CliContainerList(daemon, up1), name),
                      started |-> IsContainerStarted(CliContainerList(daemon, up2), name),
                      stopped |-> IsContainerStopped(CliContainerList(daemon, up3), name) ]
        /\ prev' = Summary
        /\ op' = [ kind |-> "Probe", want |-> FALSE ]
        /\ ret' = Nil
        /\ log' = << Call("ContainerList", "", CliContainerList(daemon, up1).err),
                     Call("ContainerList", "", CliContainerList(daemon, up2).err),
                     Call("ContainerList", "", CliContainerList(daemon, up3).err) >>
        /\ UNCHANGED daemon
        /\ entry' = [ daemon |-> daemon, term |-> term ]
        /\ UNCHANGED << ExecVars, run >>

StopStep ==
    \E listUp \in BOOLEAN, stopUp \in BOOLEAN :
        LET r == Stop(daemon, Container, listUp, stopUp)
        IN  /\ prev' = Summary
            /\ op' = [ kind |-> "Stop", want |-> FALSE ]
            /\ ret' = r.out
            /\ log' = r.calls
            /\ daemon' = r.daemon
            /\ probe' = NoProbe
            /\ entry' = [ daemon |-> daemon, term |-> term ]
            /\ UNCHANGED << ExecVars, run >>

NetworkStep ==
    \E want \in BOOLEAN, inspectUp \in BOOLEAN, netUp \in BOOLEAN :
        LET r == ContainerNetwork(daemon, Container, want, inspectUp, netUp)
        IN  /\ prev' = Summary
            /\ op' = [ kind |-> "ContainerNetwork", want |-> want ]
            /\ ret' = r.err
            /\ log' = r.calls
            /\ daemon' = r.daemon
            /\ probe' = NoProbe
            /\ entry' = [ daemon |-> daemon, term |-> term ]
            /\ UNCHANGED << ExecVars, run >>

NextState == ProbeStep \/ StopStep \/ NetworkStep

SpecState == InitState /\ [][NextState]_vars

(***************************************************************************)
(* Claims about the state prober, the stop step and the network toggle     *)
(***************************************************************************)
NetCalls == { "NetworkConnect", "NetworkDisconnect" }

\* C1: on one daemon state, whenever the listings succeed, IsContainerStopped
\* is the negation of IsContainerStarted for every name, and a name for which
\* IsContainerCreated is false is not started and is stopped.
C1_StoppedNegatesStarted ==
    op.kind = "Probe" =>
        /\ (probe.started.err = Nil /\ probe.stopped.err = Nil)
              => probe.stopped.val = ~probe.started.val
        /\ (probe.created.err = Nil /\ probe.started.err = Nil
                /\ probe.stopped.err = Nil /\ ~probe.created.val)
              => (~probe.started.val /\ probe.stopped.val)

\* The name is absent while another container runs, and is reported stopped.
C1_Witness ==
    /\ op.kind = "Probe"
    /\ CallsOk(log)
    /\ probe.name = Container
    /\ daemon[Container].State = Absent
    /\ daemon[Other].State = ContainerStateRunning
    /\ ~probe.created.val /\ ~probe.started.val /\ probe.stopped.val

\* C2: the stop step is idempotent.  Whenever its state probe succeeds: run
\* on a container that is not running (absent, created, exited, paused,
\* restarting, dead) it returns Skipped and issues no ContainerStop call; and
\* run right after a run that returned Done it returns Skipped, not Failed.
C2_StopIdempotent ==
    (op.kind = "Stop" /\ log[1][3] = Nil) =>
        /\ entry.daemon[Container].State # ContainerStateRunning
              => (ret = "Skipped" /\ CountCalls(log, { "ContainerStop" }) = 0
                    /\ daemon = entry.daemon)
        /\ (prev.kind = "Stop" /\ prev.ret = "Done") => ret = "Skipped"

\* A second run returned Skipped right after the first returned Done.
C2_Witness ==
    /\ op.kind = "Stop" /\ ret = "Skipped"
    /\ CountCalls(log, { "ContainerStop" }) = 0
    /\ prev.kind = "Stop" /\ prev.ret = "Done" /\ prev.n = 1

\* C3: ContainerNetwork is idempotent.  A call made when the bridge attachment
\* already equals want issues no NetworkConnect/NetworkDisconnect, and two
\* consecutive successful calls with the same want issue at most one in total.
C3_NetworkIdempotent ==
    op.kind = "ContainerNetwork" =>
        /\ ((Bridge \in entry.daemon[Container].Networks) = op.want)
              => CountCalls(log, NetCalls) = 0
        /\ (prev.kind = "ContainerNetwork" /\ prev.want = op.want
                /\ prev.ret = Nil /\ ret = Nil)
              => prev.n + CountCalls(log, NetCalls) <= 1

\* The first of two successful calls toggled the network, the second did not.
C3_Witness ==
    /\ op.kind = "ContainerNetwork" /\ ret = Nil
    /\ CountCalls(log, NetCalls) = 0
    /\ prev.kind = "ContainerNetwork" /\ prev.ret = Nil /\ prev.want = op.want
    /\ prev.n = 1

(***************************************************************************)
(* ContainerExec (container.go:204-280), one action per call it makes.     *)
(* The calling goroutine is sequential; resizeIfChanged, the stdin copy,   *)
(* the remote command and the host's window resizes run beside it.         *)
(***************************************************************************)
InitExec ==
    /\ daemon \in { d \in [ Names -> ContainerRecords ] :
                       d[Other] = [ State |-> ContainerStateRunning,
                                    Networks |-> { Bridge } ] }
    /\ term \in [ IsTerminal : BOOLEAN, Mode : TermModes, Size : Sizes ]
    /\ entry = [ daemon |-> daemon, term |-> term ]
    /\ op = NoOp
    /\ ret = Nil
    /\ log = << >>
    /\ prev = [ kind |-> "none", want |-> FALSE, ret |-> Nil, n |-> 0 ]
    /\ probe = NoProbe
    /\ NoSession
    /\ run = NoRun

\* What no step of ContainerExec writes.
ExecFrame == UNCHANGED << op, args, prev, probe, entry, run >>

\* ContainerExec returns err after the calls l: a deferred RestoreTerminal
\* (container.go:253) runs first.
Return(err, l) ==
    /\ pc' = "returned"
    /\ ret' = err
    /\ term' = IF oldState = NoState THEN term ELSE [ term EXCEPT !.Mode = oldState ]
    /\ log' = IF oldState = NoState THEN l
              ELSE Append(l, Call("RestoreTerminal", oldState, Nil))
    /\ oldState' = NoState

\* ContainerExec goes on to its next call.
Continue(next, l) ==
    /\ pc' = next
    /\ log' = l
    /\ UNCHANGED << ret, term, oldState >>

\* A call that does not look at Skip.
ExecBeginNoSkip ==
    \E a \in ExecArgs :
        /\ pc \in { "idle", "returned" }
        /\ watcher.pc = "none"
        /\ op' = [ kind |-> "ContainerExec", want |-> a.Network ]
        /\ args' = a
        /\ entry' = [ daemon |-> daemon, term |-> term ]
        /\ ret' = Nil
        /\ log' = << >>
        /\ pc' = "network"
        /\ exec' = NoExec
        /\ hijack' = "none"
        /\ UNCHANGED << daemon, term, oldState, watcher, wlog, stdinCopy, prev, probe, run >>

\* container.go:204-220: a call; with Skip it returns at once.  A process runs
\* one interactive session on a terminal (resizeIfChanged is never stopped), so
\* no call follows one that started the goroutines.
ExecBegin ==
    \E a \in ExecArgs :
        /\ pc \in { "idle", "returned" }
        /\ watcher.pc = "none"
        /\ op' = [ kind |-> "ContainerExec", want |-> a.Network ]
        /\ args' = a
        /\ entry' = [ daemon |-> daemon, term |-> term ]
        /\ ret' = Nil
        /\ log' = << >>
        /\ IF a.Skip
           THEN /\ pc' = "returned"
                /\ UNCHANGED << exec, hijack >>
           ELSE /\ pc' = "network"
                /\ exec' = NoExec
                /\ hijack' = "none"
        /\ UNCHANGED << daemon, term, oldState, watcher, wlog, stdinCopy, prev, probe, run >>

\* An exec that relies on the ambient network state.
ExecNetworkStepAmbient ==
    /\ pc = "network"
    /\ Continue("create", log)
    /\ UNCHANGED << daemon, exec, hijack, watcher, wlog, stdinCopy >>
    /\ ExecFrame

\* container.go:230-233
ExecNetworkStep ==
    /\ pc = "network"
    /\ \E inspectUp \in BOOLEAN, netUp \in BOOLEAN :
        LET r == ContainerNetwork(daemon, args.Name, args.Network, inspectUp, netUp)
        IN  /\ daemon' = r.daemon
            /\ IF r.err # Nil THEN Return(r.err, log \o r.calls)
               ELSE Continue("create", log \o r.calls)
    /\ UNCHANGED << exec, hijack, watcher, wlog, stdinCopy >>
    /\ ExecFrame

\* container.go:235-238
ExecCreateStep ==
    /\ pc = "create"
    /\ \E up \in BOOLEAN :
        LET r == CliContainerExecCreate(daemon, args.Name, ExecConfig(args), up)
            l == Append(log, Call("ContainerExecCreate", ExecConfig(args), r.err))
        IN  IF r.err # Nil
            THEN Return(r.err, l) /\ UNCHANGED exec
            ELSE Continue("attach", l) /\ exec' = r.exec
    /\ UNCHANGED << daemon, hijack, watcher, wlog, stdinCopy >>
    /\ ExecFrame

\* An attach that sets the terminal up for every interactive session, terminal
\* or not.
ExecAttachStepNoTerminalCheck ==
    /\ pc = "attach"
    /\ \E up \in BOOLEAN :
        LET r == CliContainerExecAttach(exec, up)
            l == Append(log, Call("ContainerExecAttach", exec.ID, r.err))
        IN  IF r.err # Nil
            THEN Return(r.err, l) /\ UNCHANGED << exec, hijack >>
            ELSE /\ Continue(IF args.Interactive THEN "makeraw" ELSE "copy", l)
                 /\ exec' = r.exec
                 /\ hijack' = "open"
    /\ UNCHANGED << daemon, watcher, wlog, stdinCopy >>
    /\ ExecFrame

\* container.go:240-248
ExecAttachStep ==
    /\ pc = "attach"
    /\ \E up \in BOOLEAN :
        LET r == CliContainerExecAttach(exec, up)
            l == Append(log, Call("ContainerExecAttach", exec.ID, r.err))
        IN  IF r.err # Nil
            THEN Return(r.err, l) /\ UNCHANGED << exec, hijack >>
            ELSE /\ Continue(IF args.Interactive /\ term.IsTerminal
                             THEN "makeraw" ELSE "copy", l)
                 /\ exec' = r.exec
                 /\ hijack' = "open"
    /\ UNCHANGED << daemon, watcher, wlog, stdinCopy >>
    /\ ExecFrame

\* A session that starts forwarding stdin as soon as the terminal is raw.
ExecMakeRawStepCopyFirst ==
    /\ pc = "makeraw"
    /\ \E ok \in BOOLEAN :
        IF ok
        THEN /\ oldState' = term.Mode
             /\ term' = [ term EXCEPT !.Mode = RawMode ]
             /\ log' = log \o << Call("MakeRaw", term.Mode, Nil),
                                 Call("go io.Copy(hijack.Conn, os.Stdin)", "", Nil) >>
             /\ pc' = "resize"
             /\ stdinCopy' = "copying"
             /\ UNCHANGED ret
        ELSE /\ Return(ErrTerminal, Append(log, Call("MakeRaw", term.Mode, ErrTerminal)))
             /\ UNCHANGED stdinCopy
    /\ UNCHANGED << daemon, exec, hijack, watcher, wlog >>
    /\ ExecFrame

\* container.go:249-253
ExecMakeRawStep ==
    /\ pc = "makeraw"
    /\ \E ok \in BOOLEAN :
        IF ok
        THEN /\ oldState' = term.Mode
             /\ term' = [ term EXCEPT !.Mode = RawMode ]
             /\ log' = Append(log, Call("MakeRaw", term.Mode, Nil))
             /\ pc' = "resize"
             /\ UNCHANGED ret
        ELSE Return(ErrTerminal, Append(log, Call("MakeRaw", term.Mode, ErrTerminal)))
    /\ UNCHANGED << daemon, exec, hijack, watcher, wlog, stdinCopy >>
    /\ ExecFrame

\* An initial resize whose failure returns without restoring the terminal.
ExecResizeStepNoRestore ==
    /\ pc = "resize"
    /\ \E sizeOk \in BOOLEAN, up \in BOOLEAN :
        LET r == ContainerExecResize(exec, term, sizeOk, up)
        IN  /\ exec' = r.exec
            /\ IF r.err # Nil
               THEN /\ pc' = "returned"
                    /\ ret' = r.err
                    /\ log' = log \o r.calls
                    /\ UNCHANGED << term, oldState >>
               ELSE Continue("spawn", log \o r.calls)
    /\ UNCHANGED << daemon, hijack, watcher, wlog, stdinCopy >>
    /\ ExecFrame

\* container.go:255-258
ExecResizeStep ==
    /\ pc = "resize"
    /\ \E sizeOk \in BOOLEAN, up \in BOOLEAN :
        LET r == ContainerExecResize(exec, term, sizeOk, up)
        IN  /\ exec' = r.exec
            /\ IF r.err # Nil THEN Return(r.err, log \o r.calls)
               ELSE Continue("spawn", log \o r.calls)
    /\ UNCHANGED << daemon, hijack, watcher, wlog, stdinCopy >>
    /\ ExecFrame

\* container.go:260-261
ExecSpawnStep ==
    /\ pc = "spawn"
    /\ watcher' = [ NoWatcher EXCEPT !.pc = "start" ]
    /\ stdinCopy' = "copying"
    /\ Continue("copy", log \o << Call("go resizeIfChanged", exec.ID, Nil),
                                  Call("go io.Copy(hijack.Conn, os.Stdin)", "", Nil) >>)
    /\ UNCHANGED << daemon, exec, hijack, wlog >>
    /\ ExecFrame

\* container.go:265: the copy of the remote output starts ...
ExecCopyBegin ==
    /\ pc = "copy"
    /\ Continue("copying", Append(log, Call("io.Copy(os.Stdout, hijack.Conn)", "begin", Nil)))
    /\ UNCHANGED << daemon, exec, hijack, watcher, wlog, stdinCopy >>
    /\ ExecFrame

\* An output copy that also waits for the stdin forwarding to finish.
ExecCopyEndJoinsStdin ==
    /\ pc = "copying"
    /\ ~exec.Running
    /\ stdinCopy # "copying"
    /\ Continue("close", Append(log, Call("io.Copy(os.Stdout, hijack.Conn)", "end", Nil)))
    /\ UNCHANGED << daemon, exec, hijack, watcher, wlog, stdinCopy >>
    /\ ExecFrame

\* ... and returns when the remote command has ended its output.
ExecCopyEnd ==
    /\ pc = "copying"
    /\ ~exec.Running
    /\ Continue("close", Append(log, Call("io.Copy(os.Stdout, hijack.Conn)", "end", Nil)))
    /\ UNCHANGED << daemon, exec, hijack, watcher, wlog, stdinCopy >>
    /\ ExecFrame

\* A close that goes on to inspect the exit code of every session.
ExecCloseStepAlwaysInspect ==
    /\ pc = "close"
    /\ hijack' = "closed"
    /\ Continue("inspect", Append(log, Call("hijack.Close", "", Nil)))
    /\ UNCHANGED << daemon, exec, watcher, wlog, stdinCopy >>
    /\ ExecFrame

\* container.go:266-268, 279
ExecCloseStep ==
    /\ pc = "close"
    /\ hijack' = "closed"
    /\ LET l == Append(log, Call("hijack.Close", "", Nil))
       IN  IF ~args.Interactive THEN Continue("inspect", l) ELSE Return(Nil, l)
    /\ UNCHANGED << daemon, exec, watcher, wlog, stdinCopy >>
    /\ ExecFrame

\* An inspect that does not look at the exit code.
ExecInspectStepIgnoreCode ==
    /\ pc = "inspect"
    /\ \E up \in BOOLEAN :
        LET inspect == CliContainerExecInspect(exec, up)
            l == Append(log, Call("ContainerExecInspect", exec.ID, inspect.err))
        IN  Return(inspect.err, l)
    /\ UNCHANGED << daemon, exec, hijack, watcher, wlog, stdinCopy >>
    /\ ExecFrame

\* container.go:269-279
ExecInspectStep ==
    /\ pc = "inspect"
    /\ \E up \in BOOLEAN :
        LET inspect == CliContainerExecInspect(exec, up)
            l == Append(log, Call("ContainerExecInspect", exec.ID, inspect.err))
        IN  IF inspect.err # Nil THEN Return(inspect.err, l)
            ELSE IF inspect.ExitCode # 0 THEN Return(ErrNonZero, l)
            ELSE Return(Nil, l)
    /\ UNCHANGED << daemon, exec, hijack, watcher, wlog, stdinCopy >>
    /\ ExecFrame

(***************************************************************************)
(* resizeIfChanged (container.go:282-290).  The channel is unbuffered and  *)
(* os/signal never blocks on a send: a SIGWINCH reaches the goroutine only *)
(* while it waits in <-channel.                                            *)
(***************************************************************************)
\* container.go:283-287: make the channel, signal.Notify, wait in <-channel.
WatcherRegister ==
    /\ watcher.pc = "start"
    /\ watcher' = [ watcher EXCEPT !.pc = "recv" ]
    /\ UNCHANGED << run, daemon, op, ret, log, prev, probe, entry, term, pc, args, exec,
                    hijack, oldState, wlog, stdinCopy >>

\* A watcher that re-applies the size the session started with.
WatcherQueryStale ==
    /\ watcher.pc = "query"
    /\ \E ok \in BOOLEAN :
        LET w == GetWinsize(entry.term, ok)
        IN  /\ wlog' = Append(wlog, Call("GetWinsize", w.winSize, w.err))
            /\ watcher' = [ watcher EXCEPT !.pc = IF w.err # Nil THEN "recv" ELSE "call",
                                           !.winSize = w.winSize,
                                           !.unserved = FALSE ]
    /\ UNCHANGED << run, daemon, op, ret, log, prev, probe, entry, term, pc, args, exec,
                    hijack, oldState, stdinCopy >>

\* container.go:288, 294-297: ContainerExecResize queries the host terminal.
WatcherQuery ==
    /\ watcher.pc = "query"
    /\ \E ok \in BOOLEAN :
        LET w == GetWinsize(term, ok)
        IN  /\ wlog' = Append(wlog, Call("GetWinsize", w.winSize, w.err))
            /\ watcher' = [ watcher EXCEPT !.pc = IF w.err # Nil THEN "recv" ELSE "call",
                                           !.winSize = w.winSize,
                                           !.unserved = FALSE ]
    /\ UNCHANGED << run, daemon, op, ret, log, prev, probe, entry, term, pc, args, exec,
                    hijack, oldState, stdinCopy >>

\* container.go:299-309, 286: the remote resize; its error is dropped and the
\* loop waits again.
WatcherCall ==
    /\ watcher.pc = "call"
    /\ \E up \in BOOLEAN :
        LET options == [ Height |-> watcher.winSize.Height,
                         Width |-> watcher.winSize.Width ]
            r == CliContainerExecResize(exec, options, up)
        IN  /\ exec' = r.exec
            /\ wlog' = Append(wlog, Call("ContainerExecResize", options, r.err))
    /\ watcher' = [ watcher EXCEPT !.pc = "recv" ]
    /\ UNCHANGED << run, daemon, op, ret, log, prev, probe, entry, term, pc, args,
                    hijack, oldState, stdinCopy >>

\* The host window is resized: the terminal has a new size and the kernel
\* raises SIGWINCH.  (Before resizeIfChanged is started a resize only changes
\* the size the session starts with, which InitExec draws.)
Sigwinch ==
    /\ watcher.pc # "none"
    /\ watcher.raised < MaxSignals
    /\ \E size \in Sizes \ { term.Size } :
        term' = [ term EXCEPT !.Size = size ]
    /\ watcher' = IF watcher.pc = "recv"
                  THEN [ watcher EXCEPT !.pc = "query", !.raised = @ + 1,
                                        !.received = @ + 1, !.unserved = TRUE ]
                  ELSE [ watcher EXCEPT !.raised = @ + 1, !.unserved = TRUE ]
    /\ UNCHANGED << run, daemon, op, ret, log, prev, probe, entry, pc, args, exec,
                    hijack, oldState, wlog, stdinCopy >>

\* The remote command ends with an exit code; its output stream ends.
RemoteExit ==
    /\ exec.Running
    /\ \E code \in ExitCodes :
        exec' = [ exec EXCEPT !.Running = FALSE, !.ExitCode = code ]
    /\ UNCHANGED << run, daemon, op, ret, log, prev, probe, entry, term, pc, args,
                    hijack, oldState, watcher, wlog, stdinCopy >>

\* container.go:261: the stdin copy ends on end of input or on a failed write.
StdinCopyEnd ==
    /\ stdinCopy = "copying"
    /\ stdinCopy' = "ended"
    /\ UNCHANGED << run, daemon, op, ret, log, prev, probe, entry, term, pc, args, exec,
                    hijack, oldState, watcher, wlog >>

NextExec ==
    \/ ExecBegin
    \/ ExecNetworkStep
    \/ ExecCreateStep
    \/ ExecAttachStep
    \/ ExecMakeRawStep
    \/ ExecResizeStep
    \/ ExecSpawnStep
    \/ ExecCopyBegin
    \/ ExecCopyEnd
    \/ ExecCloseStep
    \/ ExecInspectStep
    \/ WatcherRegister
    \/ WatcherQuery
    \/ WatcherCall
    \/ Sigwinch
    \/ RemoteExit
    \/ StdinCopyEnd

SpecExec == InitExec /\ [][NextExec]_vars

(***************************************************************************)
(* Claims about ContainerExec                                              *)
(***************************************************************************)
ToggleCalls == { "ContainerInspect", "NetworkConnect", "NetworkDisconnect" }
CopyCalls == { "io.Copy(os.Stdout, hijack.Conn)", "go io.Copy(hijack.Conn, os.Stdin)" }
Issued(l, name) == { i \in DOMAIN l : l[i][1] = name }
Succeeded(l, name) == { i \in DOMAIN l : l[i][1] = name /\ l[i][3] = Nil }

\* C4: a non-skipped ContainerExec applies its own network posture first: the
\* ContainerNetwork calls precede ContainerExecCreate, when ContainerExecCreate
\* is issued (and from then on) the bridge attachment equals args.Network
\* whatever it was at entry, and when the toggle fails no exec is created or
\* attached and the error is returned.
C4_NetworkPostureBeforeExec ==
    (op.kind = "ContainerExec" /\ ~args.Skip) =>
        /\ (pc = "create" \/ Issued(log, "ContainerExecCreate") # {})
              => ((Bridge \in daemon[args.Name].Networks) = args.Network)
        /\ \A i \in Issued(log, "ContainerExecCreate") :
              /\ i > 1
              /\ log[1][1] = "ContainerInspect"
              /\ \A j \in 1 .. (i - 1) : log[j][1] \in ToggleCalls /\ log[j][3] = Nil
        /\ (\E i \in DOMAIN log : log[i][1] \in ToggleCalls /\ log[i][3] # Nil)
              => /\ pc = "returned" /\ ret # Nil
                 /\ Issued(log, "ContainerExecCreate") = {}
                 /\ Issued(log, "ContainerExecAttach") = {}
                 /\ exec = NoExec /\ hijack = "none"

\* The exec was created after the toggle changed the attachment found at entry.
C4_Witness ==
    /\ op.kind = "ContainerExec" /\ pc = "attach"
    /\ exec.ID # ""
    /\ (Bridge \in entry.daemon[args.Name].Networks) # args.Network
    /\ (Bridge \in daemon[args.Name].Networks) = args.Network

\* C5: a batch (non-interactive, non-skipped) ContainerExec whose daemon calls
\* all succeed returns nil exactly when the command's exit code is 0, and the
\* command-failure error for every other exit code.
C5_BatchExitCode ==
    (op.kind = "ContainerExec" /\ pc = "returned" /\ ~args.Skip /\ ~args.Interactive
        /\ CallsOk(log))
      => /\ Succeeded(log, "ContainerExecInspect") # {}
         /\ (ret = Nil) = (exec.ExitCode = 0)
         /\ exec.ExitCode # 0 => ret = ErrNonZero

\* A batch exec whose command exited 7 returned the command-failure error.
C5_Witness ==
    /\ op.kind = "ContainerExec" /\ pc = "returned"
    /\ ~args.Skip /\ ~args.Interactive /\ CallsOk(log)
    /\ exec.ExitCode = 7 /\ ret = ErrNonZero

\* C6: a ContainerExec with Skip set returns nil and makes no underlying call:
\* nothing is logged, no goroutine is started, and the daemon, the terminal
\* and the deferred state are as the call found them.
C6_SkipMakesNoCalls ==
    (op.kind = "ContainerExec" /\ args.Skip) =>
        /\ pc = "returned" /\ ret = Nil
        /\ log = << >> /\ wlog = << >>
        /\ daemon = entry.daemon /\ term = entry.term
        /\ oldState = NoState /\ watcher.pc = "none" /\ stdinCopy = "none"

\* A skipped interactive exec on a container that does not exist returned nil.
C6_Witness ==
    /\ op.kind = "ContainerExec" /\ args.Skip /\ args.Interactive
    /\ pc = "returned" /\ ret = Nil
    /\ daemon[args.Name].State = Absent

\* C7: whenever ContainerExec switched the host terminal to raw mode, the
\* previous mode is back when it returns, on every return path.
C7_TerminalRestored ==
    (op.kind = "ContainerExec" /\ pc = "returned" /\ Succeeded(log, "MakeRaw") # {})
      => /\ term.Mode = entry.term.Mode
         /\ oldState = NoState
         /\ Issued(log, "RestoreTerminal") = { Len(log) }

\* The initial resize failed after the switch to raw mode; cbreak is back.
C7_Witness ==
    /\ op.kind = "ContainerExec" /\ pc = "returned"
    /\ Succeeded(log, "MakeRaw") # {}
    /\ ret \in { ErrTerminal, ErrDaemon, ErrExecNotRunning }
    /\ entry.term.Mode = "cbreak" /\ term.Mode = "cbreak"

\* C8: once resizeIfChanged is started no SIGWINCH is lost: whenever the
\* goroutine waits in <-channel again, every notification raised since it was
\* started has been followed by a re-query of the host terminal size.
C8_NoNotificationLost ==
    watcher.pc = "recv" => ~watcher.unserved

\* C9: one notification handled by resizeIfChanged gives one query of the host
\* terminal and, when that query succeeds, exactly one remote resize call,
\* which carries the size the host terminal had when it was queried (after
\* the notification), not the size of the session's start.
C9_OneResizePerNotification ==
    /\ [](LET queries == Issued(wlog, "GetWinsize")
              resizes == Issued(wlog, "ContainerExecResize")
          IN  /\ watcher.pc = "recv" =>
                    /\ Cardinality(queries) = watcher.received
                    /\ Cardinality(resizes) = Cardinality(Succeeded(wlog, "GetWinsize"))
              /\ \A i \in resizes :
                    /\ i - 1 \in Succeeded(wlog, "GetWinsize")
                    /\ wlog[i][2] = [ Height |-> wlog[i - 1][2].Height,
                                      Width |-> wlog[i - 1][2].Width ])
    /\ [][ (watcher.pc = "query" /\ watcher'.pc = "call") =>
              /\ watcher'.winSize = term.Size
              /\ wlog' = Append(wlog, Call("GetWinsize", term.Size, Nil)) ]_vars

\* The session started at 80x24; one notification after a resize to 100x30 was
\* handled with one remote resize to 100x30.
C9_Witness ==
    /\ watcher.pc = "recv" /\ watcher.received = 1 /\ watcher.raised = 1
    /\ entry.term.Size = [ Width |-> 80, Height |-> 24 ]
    /\ Len(wlog) = 2
    /\ wlog[2] = Call("ContainerExecResize", [ Height |-> 30, Width |-> 100 ], Nil)
    /\ exec.Size = [ Height |-> 30, Width |-> 100 ]

\* C10: in a session on a real terminal the raw-mode switch and the initial
\* remote resize have both succeeded before any stdin or stdout copy starts;
\* the exit code is inspected only in batch mode and only after the output
\* copy has ended.
C10_SetupBeforeCopy ==
    op.kind = "ContainerExec" =>
        /\ (args.Interactive /\ entry.term.IsTerminal) =>
              \A i \in DOMAIN log : log[i][1] \in CopyCalls =>
                  /\ \E j \in Succeeded(log, "MakeRaw") : j < i
                  /\ \E j \in Succeeded(log, "ContainerExecResize") : j < i
        /\ stdinCopy # "none" => Succeeded(log, "ContainerExecResize") # {}
        /\ \A i \in Issued(log, "ContainerExecInspect") :
              /\ ~args.Interactive
              /\ \E j \in 1 .. (i - 1) :
                    log[j] = Call("io.Copy(os.Stdout, hijack.Conn)", "end", Nil)

\* An interactive session on a real terminal ran to its end.
C10_Witness ==
    /\ op.kind = "ContainerExec" /\ pc = "returned" /\ ret = Nil
    /\ args.Interactive /\ entry.term.IsTerminal
    /\ \E i \in DOMAIN log : log[i] = Call("io.Copy(os.Stdout, hijack.Conn)", "end", Nil)
    /\ stdinCopy # "none"

(***************************************************************************)
(* C11.  An interactive ContainerExec never looks at the exit code of the  *)
(* remote command: it issues no ContainerExecInspect call, and once the    *)
(* network toggle, the exec creation, the attach and the terminal setup    *)
(* have succeeded it returns success whatever the exit code is.            *)
(***************************************************************************)
C11_InteractiveIgnoresExitCode ==
    (op.kind = "ContainerExec" /\ args.Interactive) =>
        /\ Issued(log, "ContainerExecInspect") = {}
        /\ pc # "inspect"
        /\ (pc = "returned" /\ ~args.Skip /\ CallsOk(log)) => ret = Nil

\* An interactive session on a terminal whose command exited with a
\* non-zero code has returned success.
C11_Witness ==
    /\ op.kind = "ContainerExec" /\ pc = "returned"
    /\ args.Interactive /\ entry.term.IsTerminal
    /\ hijack = "closed" /\ exec.ExitCode = 7
    /\ ret = Nil

(***************************************************************************)
(* C16.  Every exec session whose attach succeeded is torn down: on every  *)
(* return path of ContainerExec after a successful ContainerExecAttach the *)
(* hijacked stream has been closed by the time the call returns.           *)
(***************************************************************************)
C16_StreamClosedOnReturn ==
    (op.kind = "ContainerExec" /\ pc = "returned"
        /\ Succeeded(log, "ContainerExecAttach") # {}) => hijack = "closed"

(***************************************************************************)
(* C17.  A failure of the daemon listing is never turned into an answer    *)
(* about the container: each of the three probes returns the error of its  *)
(* listing together with the result false, and a stop step whose listing   *)
(* failed reports Failed, issues no ContainerStop and leaves the daemon as  *)
(* it was, rather than reporting Skipped or Done.                          *)
(***************************************************************************)
C17_ListingFailureIsAnError ==
    /\ op.kind = "Probe" =>
          /\ probe.created.err = log[1][3]
          /\ probe.started.err = log[2][3]
          /\ probe.stopped.err = log[3][3]
          /\ \A p \in { probe.created, probe.started, probe.stopped } :
                p.err # Nil => p.val = FALSE
    /\ (op.kind = "Stop" /\ log[1][3] # Nil) =>
          /\ ret = "Failed"
          /\ Len(log) = 1
          /\ log[1][1] = "ContainerList"
          /\ daemon = entry.daemon

\* The listing failed while the container was running: the stop step
\* reported Failed and the container still runs.
C17_Witness ==
    /\ op.kind = "Stop" /\ ret = "Failed"
    /\ log = << Call("ContainerList", "", ErrDaemon) >>
    /\ entry.daemon[Container].State = ContainerStateRunning
    /\ daemon[Container].State = ContainerStateRunning

\* What ContainerExec calls only for a terminal (container.go:248-262).
TerminalCalls ==
    { "MakeRaw", "RestoreTerminal", "GetWinsize", "ContainerExecResize",
      "go resizeIfChanged", "go io.Copy(hijack.Conn, os.Stdin)" }

(***************************************************************************)
(* C18.  An interactive ContainerExec whose host stdin is not a terminal   *)
(* switches nothing to raw mode, sends no resize to the daemon and starts  *)
(* neither the resize watcher nor the stdin forwarding: after the attach   *)
(* its only I/O is the copy of the remote output to stdout, which has      *)
(* ended before the stream is closed, as in a batch exec.                  *)
(***************************************************************************)
C18_NoTerminalNoSetup ==
    (op.kind = "ContainerExec" /\ args.Interactive /\ ~entry.term.IsTerminal) =>
        /\ \A i \in DOMAIN log : log[i][1] \notin TerminalCalls
        /\ pc \notin { "makeraw", "resize", "spawn" }
        /\ term = entry.term
        /\ oldState = NoState
        /\ watcher = NoWatcher /\ wlog = << >>
        /\ stdinCopy = "none"
        /\ \A i \in Issued(log, "ContainerExecAttach") : \A k \in DOMAIN log :
              k > i => log[k][1] \in { "io.Copy(os.Stdout, hijack.Conn)", "hijack.Close" }
        /\ \A i \in Issued(log, "hijack.Close") :
              i > 1 /\ log[i - 1] = Call("io.Copy(os.Stdout, hijack.Conn)", "end", Nil)

\* An interactive session without a terminal has copied the remote output
\* and returned.
C18_Witness ==
    /\ op.kind = "ContainerExec" /\ pc = "returned"
    /\ args.Interactive /\ ~entry.term.IsTerminal
    /\ hijack = "closed" /\ ret = Nil
    /\ Issued(log, "io.Copy(os.Stdout, hijack.Conn)") # {}

(***************************************************************************)
(* ContainerExec under a fair scheduler.  The calling goroutine is always  *)
(* scheduled again and its calls into the client return (with or without   *)
(* an error): the steps from the output copy to the return are weakly      *)
(* fair.  Nothing is assumed of the remote command, of the host's stdin or *)
(* of the two goroutines, which container.go:260-261 starts and never      *)
(* joins: they may stay blocked forever.                                   *)
(***************************************************************************)
SpecExecFair ==
    /\ SpecExec
    /\ WF_vars(ExecCopyBegin)
    /\ WF_vars(ExecCopyEnd)
    /\ WF_vars(ExecCloseStep)
    /\ WF_vars(ExecInspectStep)

(***************************************************************************)
(* C19.  ContainerExec returns once the remote output has ended: a session *)
(* that is attached and set up and whose remote command has exited always  *)
(* returns, whether or not the stdin forwarding and the resize watcher     *)
(* ever finish or move.                                                    *)
(***************************************************************************)
C19_ReturnsAfterRemoteExit ==
    (op.kind = "ContainerExec" /\ pc \in { "copy", "copying" } /\ ~exec.Running)
        ~> (pc = "returned")

\* An interactive session has returned while its stdin forwarding still
\* copies and its resize watcher still waits for a signal.
C19_Witness ==
    /\ op.kind = "ContainerExec" /\ pc = "returned"
    /\ args.Interactive /\ hijack = "closed" /\ ret = Nil
    /\ stdinCopy = "copying"
    /\ watcher.pc = "recv"

(***************************************************************************)
(* The build pipeline: the steps check (walking/check.go), package         *)
(* (walking, Package) and stop (walking/stop.go), and a start step before  *)
(* package.  The runner and the start step follow sections 4.2 and 4.5 of  *)
(* the specification.                                                      *)
(***************************************************************************)
\* DEBER_DPKG_BUILDPACKAGE_FLAGS, as the process found it.
dpkgFlags == "-tc"
ErrCreate == "open Packages: permission denied"

Steps == << "check", "start", "package", "stop" >>

\* The args Package builds: every field it does not name is zero.
PackageArgs ==
    [ Interactive |-> FALSE, Name |-> Container,
      Cmd |-> "dpkg-buildpackage" \o " " \o dpkgFlags,
      WorkDir |-> "", AsRoot |-> FALSE, Skip |-> FALSE, Network |-> FALSE ]

ContainerDisableNetwork(d, name, inspectUp, netUp) ==
    ContainerNetwork(d, name, FALSE, inspectUp, netUp)
ContainerEnableNetwork(d, name, inspectUp, netUp) ==
    ContainerNetwork(d, name, TRUE, inspectUp, netUp)

\* cli.ContainerStart(ctx, name, options)
CliContainerStart(d, name, up) ==
    IF ~up THEN [ err |-> ErrDaemon, daemon |-> d ]
    ELSE IF d[name].State = Absent THEN [ err |-> ErrNoSuchContainer, daemon |-> d ]
    ELSE [ err |-> Nil, daemon |-> [ d EXCEPT ![name].State = ContainerStateRunning ] ]

\* The start step: skipped when the container already runs.
Start(d, name, listUp, startUp) ==
    LET isContainerStarted == IsContainerStarted(CliContainerList(d, listUp), name)
    IN  IF isContainerStarted.err # Nil
        THEN [ out |-> "Failed", daemon |-> d,
               calls |-> << Call("ContainerList", "", isContainerStarted.err) >> ]
        ELSE IF isContainerStarted.val
        THEN [ out |-> "Skipped", daemon |-> d,
               calls |-> << Call("ContainerList", "", Nil) >> ]
        ELSE LET r == CliContainerStart(d, name, startUp)
             IN  [ out |-> IF r.err # Nil THEN "Failed" ELSE "Done",
                   daemon |-> r.daemon,
                   calls |-> << Call("ContainerList", "", Nil),
                                Call("ContainerStart", name, r.err) >> ]

\* Some step has returned Failed.
Halted == run.done # << >> /\ run.done[Len(run.done)].out = "Failed"

\* A runner that goes on after a failed step.
InvokeAfterFailure(name) ==
    /\ run.proc = "running"
    /\ run.at = "pipeline"
    /\ Len(run.done) < Len(Steps)
    /\ Steps[Len(run.done) + 1] = name

\* The runner calls the step `name`: it is the next one and none has failed.
Invoke(name) ==
    /\ run.proc = "running"
    /\ run.at = "pipeline"
    /\ ~Halted
    /\ Len(run.done) < Len(Steps)
    /\ Steps[Len(run.done) + 1] = name

\* The step `name` returns `out` to the runner.
Outcome(r, name, out) ==
    [ r EXCEPT !.at = "pipeline",
               !.done = Append(@, [ name |-> name, out |-> out ]) ]

InitPipeline ==
    /\ daemon \in { d \in [ Names -> ContainerRecords ] :
                       d[Other] = [ State |-> ContainerStateRunning,
                                    Networks |-> { Bridge } ] }
    /\ term = DefaultTerm
    /\ entry = [ daemon |-> daemon, term |-> term ]
    /\ op = NoOp
    /\ ret = Nil
    /\ log = << >>
    /\ prev = [ kind |-> "none", want |-> FALSE, ret |-> Nil, n |-> 0 ]
    /\ probe = NoProbe
    /\ NoSession
    /\ \E fs \in [ ArchivePackageDir : BOOLEAN, Packages : BOOLEAN ] :
         run = [ NoRun EXCEPT !.at = "pipeline", !.fs = fs ]

\* What no step of the pipeline writes.
PipelineFrame == UNCHANGED << prev, probe, term, oldState, watcher, wlog, stdinCopy >>

\* A check that reports an ordinary skip when the package is in the archive.
CheckSkips ==
    /\ Invoke("check")
    /\ run' = Outcome(run, "check", IF run.fs.ArchivePackageDir THEN "Skipped" ELSE "Done")
    /\ op' = [ kind |-> "Check", want |-> FALSE ]
    /\ ret' = Nil
    /\ log' = << >>
    /\ entry' = [ daemon |-> daemon, term |-> term ]
    /\ UNCHANGED << daemon, pc, args, exec, hijack >>
    /\ PipelineFrame

\* check.go:25-35: os.Exit(0) when os.Stat finds the archive package
\* directory, log.DoneE() otherwise.
Check ==
    /\ Invoke("check")
    /\ IF run.fs.ArchivePackageDir
       THEN run' = [ run EXCEPT !.at = "check", !.proc = "exited", !.exitCode = 0 ]
       ELSE run' = Outcome(run, "check", "Done")
    /\ op' = [ kind |-> "Check", want |-> FALSE ]
    /\ ret' = Nil
    /\ log' = << >>
    /\ entry' = [ daemon |-> daemon, term |-> term ]
    /\ UNCHANGED << daemon, pc, args, exec, hijack >>
    /\ PipelineFrame

\* The start step, as the runner calls it.
PipelineStart ==
    /\ Invoke("start")
    /\ \E listUp \in BOOLEAN, startUp \in BOOLEAN :
        LET r == Start(daemon, Container, listUp, startUp)
        IN  /\ run' = Outcome(run, "start", r.out)
            /\ ret' = r.out
            /\ log' = r.calls
            /\ daemon' = r.daemon
    /\ op' = [ kind |-> "Start", want |-> FALSE ]
    /\ entry' = [ daemon |-> daemon, term |-> term ]
    /\ UNCHANGED << pc, args, exec, hijack >>
    /\ PipelineFrame

\* A package step whose exec asks for the network.
PackageNetworked ==
    /\ Invoke("package")
    /\ \E createOk \in BOOLEAN, inspectUp \in BOOLEAN, netUp \in BOOLEAN :
        LET create == ~run.fs.Packages
            err == IF createOk THEN Nil ELSE ErrCreate
            made == IF create THEN << Call("os.Create", "Packages", err) >> ELSE << >>
            fs == IF create /\ createOk THEN [ run.fs EXCEPT !.Packages = TRUE ] ELSE run.fs
            off == ContainerDisableNetwork(daemon, Container, inspectUp, netUp)
        IN  IF create /\ ~createOk
            THEN /\ run' = Outcome(run, "package", "Failed")
                 /\ ret' = err
                 /\ log' = made
                 /\ UNCHANGED << daemon, pc, args, exec, hijack >>
            ELSE IF off.err # Nil
            THEN /\ run' = Outcome([ run EXCEPT !.fs = fs ], "package", "Failed")
                 /\ ret' = off.err
                 /\ log' = made \o off.calls
                 /\ daemon' = off.daemon
                 /\ UNCHANGED << pc, args, exec, hijack >>
            ELSE /\ run' = [ run EXCEPT !.fs = fs, !.at = "package", !.disabled = TRUE ]
                 /\ ret' = Nil
                 /\ log' = made \o off.calls
                 /\ daemon' = off.daemon
                 /\ args' = [ PackageArgs EXCEPT !.Network = TRUE ]
                 /\ pc' = "network"
                 /\ exec' = NoExec
                 /\ hijack' = "none"
    /\ op' = [ kind |-> "Package", want |-> FALSE ]
    /\ entry' = [ daemon |-> daemon, term |-> term ]
    /\ PipelineFrame

\* Package (lines 29-54): the Packages file, ContainerDisableNetwork, the
\* deferred ContainerEnableNetwork, and the call of ContainerExec, whose steps
\* are those of ContainerExec above.
Package ==
    /\ Invoke("package")
    /\ \E createOk \in BOOLEAN, inspectUp \in BOOLEAN, netUp \in BOOLEAN :
        LET create == ~run.fs.Packages
            err == IF createOk THEN Nil ELSE ErrCreate
            made == IF create THEN << Call("os.Create", "Packages", err) >> ELSE << >>
            fs == IF create /\ createOk THEN [ run.fs EXCEPT !.Packages = TRUE ] ELSE run.fs
            off == ContainerDisableNetwork(daemon, Container, inspectUp, netUp)
        IN  IF create /\ ~createOk
            THEN /\ run' = Outcome(run, "package", "Failed")
                 /\ ret' = err
                 /\ log' = made
                 /\ UNCHANGED << daemon, pc, args, exec, hijack >>
            ELSE IF off.err # Nil
            THEN /\ run' = Outcome([ run EXCEPT !.fs = fs ], "package", "Failed")
                 /\ ret' = off.err
                 /\ log' = made \o off.calls
                 /\ daemon' = off.daemon
                 /\ UNCHANGED << pc, args, exec, hijack >>
            ELSE /\ run' = [ run EXCEPT !.fs = fs, !.at = "package", !.disabled = TRUE ]
                 /\ ret' = Nil
                 /\ log' = made \o off.calls
                 /\ daemon' = off.daemon
                 /\ args' = PackageArgs
                 /\ pc' = "network"
                 /\ exec' = NoExec
                 /\ hijack' = "none"
    /\ op' = [ kind |-> "Package", want |-> FALSE ]
    /\ entry' = [ daemon |-> daemon, term |-> term ]
    /\ PipelineFrame

\* Package (lines 54-59, 46): ContainerExec has returned; log.FailE or
\* log.DoneE, and the deferred ContainerEnableNetwork, whose error is dropped.
PackageReturn ==
    /\ run.proc = "running"
    /\ run.at = "package"
    /\ pc = "returned"
    /\ \E inspectUp \in BOOLEAN, netUp \in BOOLEAN :
        LET on == ContainerEnableNetwork(daemon, Container, inspectUp, netUp)
        IN  /\ daemon' = on.daemon
            /\ log' = log \o on.calls
    /\ run' = Outcome(run, "package", IF ret # Nil THEN "Failed" ELSE "Done")
    /\ pc' = "idle"
    /\ UNCHANGED << op, ret, entry, args, exec, hijack >>
    /\ PipelineFrame

\* stop.go:22-39, as the runner calls it.
PipelineStop ==
    /\ Invoke("stop")
    /\ \E listUp \in BOOLEAN, stopUp \in BOOLEAN :
        LET r == Stop(daemon, Container, listUp, stopUp)
        IN  /\ run' = Outcome(run, "stop", r.out)
            /\ ret' = r.out
            /\ log' = r.calls
            /\ daemon' = r.daemon
    /\ op' = [ kind |-> "Stop", want |-> FALSE ]
    /\ entry' = [ daemon |-> daemon, term |-> term ]
    /\ UNCHANGED << pc, args, exec, hijack >>
    /\ PipelineFrame

\* The runner returns: the process exits with 0 after the last step and with
\* a non-zero code after a failed one.
PipelineEnd ==
    /\ run.proc = "running"
    /\ run.at = "pipeline"
    /\ Halted \/ Len(run.done) = Len(Steps)
    /\ run' = [ run EXCEPT !.proc = "exited", !.exitCode = IF Halted THEN 1 ELSE 0 ]
    /\ UNCHANGED << daemon, op, ret, log, prev, probe, entry, term, pc, args, exec,
                    hijack, oldState, watcher, wlog, stdinCopy >>

NextPipeline ==
    \/ Check
    \/ PipelineStart
    \/ Package
    \/ ExecNetworkStep
    \/ ExecCreateStep
    \/ ExecAttachStep
    \/ ExecCopyBegin
    \/ ExecCopyEnd
    \/ ExecCloseStep
    \/ ExecInspectStep
    \/ RemoteExit
    \/ PackageReturn
    \/ PipelineStop
    \/ PipelineEnd

SpecPipeline == InitPipeline /\ [][NextPipeline]_vars

(***************************************************************************)
(* C12.  When the archive package directory exists, the check step ends    *)
(* the whole process with exit code 0 and never returns to the runner: no  *)
(* step reports an outcome, no later step (package, stop) runs or issues a *)
(* call.  When the directory is absent the check step returns Done and the *)
(* runner goes on to the next step: the process does not end on it.        *)
(***************************************************************************)
C12_CheckShortCircuits ==
    /\ run.at # "none" /\ run.fs.ArchivePackageDir =>
          /\ run.done = << >>
          /\ run.at \in { "pipeline", "check" }
          /\ run.at = "check" <=> run.proc = "exited"
          /\ run.proc = "exited" => run.exitCode = 0
          /\ log = << >> /\ pc = "idle" /\ daemon = entry.daemon
    /\ run.at # "none" /\ ~run.fs.ArchivePackageDir =>
          /\ run.at # "check"
          /\ run.done # << >> => run.done[1] = [ name |-> "check", out |-> "Done" ]
          /\ run.proc = "exited" => Len(run.done) >= 2

\* The check step found the directory and the process has exited with 0,
\* with a running container left as it was.
C12_Witness ==
    /\ run.fs.ArchivePackageDir
    /\ run.at = "check" /\ run.proc = "exited" /\ run.exitCode = 0
    /\ daemon[Container].State = ContainerStateRunning

\* The directory was absent: the steps after check have run.
C12_WitnessAbsent ==
    /\ ~run.fs.ArchivePackageDir
    /\ Len(run.done) = Len(Steps)
    /\ run.done[1].out = "Done"

(***************************************************************************)
(* C13.  In the package step dpkg-buildpackage runs with the container     *)
(* detached from the network: the network has been disabled with success   *)
(* before the exec is created, the exec asks for Network = false and makes *)
(* no connect call, the container is detached whenever the command is      *)
(* created or runs, and when disabling the network fails the step is       *)
(* Failed and no exec is ever created.                                     *)
(***************************************************************************)
C13_PackageRunsDetached ==
    /\ run.at = "package" =>
          /\ run.disabled
          /\ args.Network = FALSE
          /\ Bridge \notin daemon[Container].Networks
    /\ op.kind = "Package" =>
          /\ Issued(log, "NetworkConnect") \subseteq { Len(log) }
          /\ \A i \in Issued(log, "ContainerExecCreate") :
                /\ run.disabled
                /\ log[i][2].Cmd = << "bash", "-c", "dpkg-buildpackage -tc" >>
                /\ \E j \in Succeeded(log, "ContainerInspect") : \E k \in Succeeded(log, "ContainerInspect") :
                      j < k /\ k < i
                /\ \A j \in 1..i-1 : log[j][3] = Nil
          /\ exec.Running =>
                /\ exec.Config.Cmd = << "bash", "-c", "dpkg-buildpackage -tc" >>
                /\ Bridge \notin daemon[Container].Networks
          /\ (run.at = "pipeline" /\ ~run.disabled) =>
                /\ run.done[Len(run.done)] = [ name |-> "package", out |-> "Failed" ]
                /\ Issued(log, "ContainerExecCreate") = {}
                /\ pc = "idle"

\* dpkg-buildpackage runs in a container that was attached to the network
\* when the package step began and is detached now.
C13_Witness ==
    /\ op.kind = "Package" /\ run.at = "package"
    /\ exec.Running /\ pc = "copying"
    /\ Bridge \in entry.daemon[Container].Networks
    /\ Bridge \notin daemon[Container].Networks
    /\ Succeeded(log, "NetworkDisconnect") # {}

(***************************************************************************)
(* C14.  The package step enables the network back: whenever Package has   *)
(* returned after it had disabled the network with success, whether the    *)
(* command succeeded, exited non-zero or the exec failed, the container is *)
(* attached to the network again.                                          *)
(***************************************************************************)
C14_NetworkEnabledBack ==
    (op.kind = "Package" /\ run.at = "pipeline" /\ run.disabled) =>
        Bridge \in daemon[Container].Networks

\* The operation each step of the pipeline runs.
StepOp == [ s \in { Steps[i] : i \in DOMAIN Steps } |->
              CASE s = "check" -> "Check" [] s = "start" -> "Start"
                [] s = "package" -> "Package" [] s = "stop" -> "Stop" ]

\* The position of the step called last.
LastInvoked == IF run.at \in { "check", "package" } THEN Len(run.done) + 1 ELSE Len(run.done)

(***************************************************************************)
(* C15.  The runner calls the steps strictly in order, each at most once,  *)
(* and halts at the first Failed outcome: every outcome before the last is *)
(* Done or Skipped, after a Failed outcome no step is called and the       *)
(* process exits with a non-zero code, and after Done or Skipped the       *)
(* runner does not end before the last step.  With check Done, start       *)
(* Skipped and package Failed, stop is never called.                       *)
(***************************************************************************)
C15_InOrderUntilFailed ==
    run.at # "none" =>
        /\ Len(run.done) <= Len(Steps)
        /\ \A i \in DOMAIN run.done :
              /\ run.done[i].name = Steps[i]
              /\ run.done[i].out \in { "Done", "Skipped", "Failed" }
              /\ i < Len(run.done) => run.done[i].out \in { "Done", "Skipped" }
        /\ LastInvoked <= Len(Steps)
        /\ IF LastInvoked = 0 THEN op = NoOp ELSE op.kind = StepOp[Steps[LastInvoked]]
        /\ Halted => run.at = "pipeline" /\ pc = "idle"
        /\ (run.proc = "exited" /\ run.at = "pipeline") =>
              /\ Halted \/ Len(run.done) = Len(Steps)
              /\ run.exitCode # 0 <=> Halted

\* check returned Done, start Skipped, package Failed: the process has
\* exited with a non-zero code and the stop step was never called.
C15_Witness ==
    /\ run.done = << [ name |-> "check", out |-> "Done" ],
                     [ name |-> "start", out |-> "Skipped" ],
                     [ name |-> "package", out |-> "Failed" ] >>
    /\ run.proc = "exited" /\ run.exitCode # 0
    /\ op.kind = "Package"
    /\ daemon[Container].State = ContainerStateRunning

====
